---- MODULE Spec2Model ----
(***************************************************************************)
(* Model of PyGraphbook/src/onnx/onnx_2_graphbook.py: the conversion of a  *)
(* flat ONNX graph (operations tagged with a composite path, links keyed   *)
(* by variable name) into a tree of nested composite operations.           *)
(*                                                                         *)
(* Strings are sequences of one-character strings, so that str.split,      *)
(* str.join and str.startswith are computed as Python computes them.       *)
(***************************************************************************)
EXTENDS Naturals, Sequences, FiniteSets, TLC

\* ------------------------------------------------------------------------
\* Bounds of the model
\* ------------------------------------------------------------------------
MaxOps == 2
MaxLinks == 2

\* ------------------------------------------------------------------------
\* Module constants of onnx_2_graphbook.py
\* ------------------------------------------------------------------------
FORWARD_SLASH == "/"
INPUT == "input"
OUTPUT == "output"
THIS == <<"t", "h", "i", "s">>

\* ------------------------------------------------------------------------
\* Python string and list helpers
\* ------------------------------------------------------------------------
Range(s) == {s[i] : i \in DOMAIN s}

FirstSlash(s) == CHOOSE i \in 1..Len(s) :
                    /\ s[i] = FORWARD_SLASH
                    /\ \A j \in 1..(i - 1) : s[j] # FORWARD_SLASH

RECURSIVE Split(_)
Split(s) ==
    IF FORWARD_SLASH \notin Range(s)
    THEN <<s>>
    ELSE LET i == FirstSlash(s)
         IN  <<SubSeq(s, 1, i - 1)>> \o Split(SubSeq(s, i + 1, Len(s)))

RECURSIVE Join(_)
Join(parts) ==
    IF Len(parts) = 0 THEN <<>>
    ELSE IF Len(parts) = 1 THEN parts[1]
    ELSE parts[1] \o <<FORWARD_SLASH>> \o Join(Tail(parts))

StartsWith(s, prefix) ==
    /\ Len(prefix) <= Len(s)
    /\ SubSeq(s, 1, Len(prefix)) = prefix

\* parts[:n]
Take(parts, n) == SubSeq(parts, 1, IF n < Len(parts) THEN n ELSE Len(parts))

\* parts[n:]
Drop(parts, n) == SubSeq(parts, n + 1, Len(parts))

\* defaultdict access: m[key] creates the entry when it is missing
Touch(m, key, default) ==
    IF key \in DOMAIN m THEN m
    ELSE [k \in DOMAIN m \cup {key} |-> IF k = key THEN default ELSE m[k]]

Put(m, key, val) ==
    [k \in DOMAIN m \cup {key} |-> IF k = key THEN val ELSE m[k]]

EmptyMap == [k \in {} |-> <<>>]

\* ------------------------------------------------------------------------
\* _calculate_composite_input_outputs
\* ------------------------------------------------------------------------

\* if kind not in var_map[key]: var_map[key][kind] = []
\* if var_name not in var_map[key][kind]: var_map[key][kind].append(var_name)
AddVarMut(var_map, key, kind, var_name) ==
    LET m1 == Touch(var_map, key, EmptyMap)
        e1 == Touch(m1[key], kind, <<>>)
    IN  Put(m1, key, Put(e1, kind, Append(e1[kind], var_name)))

AddVar(var_map, key, kind, var_name) ==
    LET m1 == Touch(var_map, key, EmptyMap)
        e1 == Touch(m1[key], kind, <<>>)
        e2 == IF var_name \in Range(e1[kind])
              THEN e1
              ELSE Put(e1, kind, Append(e1[kind], var_name))
    IN  Put(m1, key, e2)

RECURSIVE AddVars(_, _, _, _)
AddVars(var_map, keys, kind, var_name) ==
    IF Len(keys) = 0 THEN var_map
    ELSE AddVars(AddVar(var_map, Head(keys), kind, var_name),
                 Tail(keys), kind, var_name)

\* for i in range(1, len(path2_split)): join(path2_split[:i+1])
DownstreamKeysMut(path2) ==
    LET path2_split == Split(path2)
    IN  [i \in 1..Len(path2_split) |-> Join(Take(path2_split, i))]

DownstreamKeys(path2) ==
    LET path2_split == Split(path2)
    IN  [i \in 1..(Len(path2_split) - 1) |-> Join(Take(path2_split, i + 1))]

\* for i in range(len(path1_split)): join(path1_split[:i+1])
UpstreamKeysMut(path1) ==
    LET path1_split == Split(path1)
    IN  [i \in 1..(Len(path1_split) - 1) |-> Join(Take(path1_split, i + 1))]

UpstreamKeys(path1) ==
    LET path1_split == Split(path1)
    IN  [i \in 1..Len(path1_split) |-> Join(Take(path1_split, i))]

\* partial_split = deep_split[len(base_split):]
\* for i in range(len(partial_split)): base + "/" + join(partial_split[:i+1])
PartialKeys(base, deep) ==
    LET partial_split == Drop(Split(deep), Len(Split(base)))
    IN  [i \in 1..Len(partial_split) |->
            base \o <<FORWARD_SLASH>> \o Join(Take(partial_split, i))]

\* the loop that collects shared_parts, stopping at the first difference
RECURSIVE SharedFrom(_, _, _)
SharedFrom(path1_split, path2_split, i) ==
    IF i > Len(path1_split) \/ i > Len(path2_split) THEN <<>>
    ELSE IF Take(path1_split, i) = Take(path2_split, i)
         THEN <<Join(Take(path1_split, i))>> \o SharedFrom(path1_split, path2_split, i + 1)
         ELSE <<>>

SharedParts(path1, path2) == SharedFrom(Split(path1), Split(path2), 1)

\* the keys of a path that are not in shared_parts
UnsharedKeys(path, shared_parts) ==
    SelectSeq(UpstreamKeys(path), LAMBDA k : k \notin Range(shared_parts))

calculate_composite_input_outputs(var_name, path1, path2, var_map) ==
    IF path1 = <<>>
    THEN AddVars(var_map, DownstreamKeys(path2), INPUT, var_name)
    ELSE IF path2 = <<>>
    THEN AddVars(var_map, UpstreamKeys(path1), OUTPUT, var_name)
    ELSE IF StartsWith(path1, path2)
    THEN AddVars(var_map, PartialKeys(path2, path1), OUTPUT, var_name)
    ELSE IF StartsWith(path2, path1)
    THEN AddVars(var_map, PartialKeys(path1, path2), INPUT, var_name)
    ELSE LET shared_parts == SharedParts(path1, path2)
             m1 == AddVars(var_map, UnsharedKeys(path1, shared_parts), OUTPUT, var_name)
         IN  AddVars(m1, UnsharedKeys(path2, shared_parts), INPUT, var_name)

\* ------------------------------------------------------------------------
\* The flat graphs the conversion is run on
\* ------------------------------------------------------------------------

\* onnx_graph.name, the graph-boundary sentinel of the flat links
GraphName == <<"g">>

\* a name that no operation of the flat graph has
Ghost == <<"z">>

Op(name, composite_path) == [name |-> name, composite_path |-> composite_path]

\* candidate operations: two owned by root, one in the depth-1 scope a, one
\* in the depth-3 scope a/b/c, and one in ab, a sibling of a whose name starts
\* with "a". An operation's name is its composite path, the separator and a
\* local name; a composite path has no leading separator.
OpUniverse == <<
    Op(<<"p">>, <<>>),
    Op(<<"q">>, <<>>),
    Op(<<"a", "/", "x">>, <<"a">>),
    Op(<<"a", "/", "b", "/", "c", "/", "x">>, <<"a", "/", "b", "/", "c">>),
    Op(<<"a", "b", "/", "x">>, <<"a", "b">>) >>

VarNames == {<<"u">>, <<"v">>}

GraphInputs == {<<>>, << <<"u">> >>}

GraphOutputs == {<<>>, << <<"v">> >>}

OnnxLink(source, sink, var_name) ==
    [source |-> source, sink |-> sink, var_name |-> var_name]

\* the operations of OpUniverse at the positions idx, in OpUniverse order
OpsAt(idx) == SelectSeq(OpUniverse, LAMBDA op : \E i \in idx : OpUniverse[i] = op)

OpNames(ops) == {ops[i].name : i \in DOMAIN ops}

Endpoints(ops) == OpNames(ops) \cup {GraphName, Ghost}

LinkChoices(ops) ==
    {OnnxLink(s, t, v) : s \in Endpoints(ops), t \in Endpoints(ops), v \in VarNames}

SeqsUpTo(S, n) == UNION {[1..k -> S] : k \in 0..n}

\* ------------------------------------------------------------------------
\* State
\* ------------------------------------------------------------------------
VARIABLES
    onnx_ops,                 \* onnx_graph.onnx_ops
    onnx_links,               \* onnx_graph.onnx_links
    graph_inputs,             \* onnx_graph.inputs
    graph_outputs,            \* onnx_graph.outputs
    composite_names,          \* set of composite paths, '' for root
    composite_map,            \* composite path -> operations owned by it
    composite_var_map,        \* composite path -> {INPUT: [...], OUTPUT: [...]}
    composite_link_map,       \* composite path -> flat links, in insertion order
    primitive_map,            \* operation name -> converted operation
    graphbook_composite_map,  \* composite name -> composite operation
    returned,                 \* value returned by onnx_graph_to_graphbook
    pc,                       \* position in onnx_graph_to_graphbook
    li,                       \* index of the flat link the link-map loop is at
    ri,                       \* index of the routing step the last loop is at
    err                       \* exception raised, "none" when there is none

vars == <<onnx_ops, onnx_links, graph_inputs, graph_outputs, composite_names,
          composite_map, composite_var_map, composite_link_map, primitive_map,
          graphbook_composite_map, returned, pc, li, ri, err>>

graph == <<onnx_ops, onnx_links, graph_inputs, graph_outputs>>

None == "None"

\* name_to_op = {op.name: op for op in onnx_graph.onnx_ops}
name_to_op ==
    [n \in OpNames(onnx_ops) |->
        onnx_ops[CHOOSE i \in DOMAIN onnx_ops :
                    /\ onnx_ops[i].name = n
                    /\ \A j \in DOMAIN onnx_ops : onnx_ops[j].name = n => j <= i]]

\* the declared names are names of variables of the graph: a declared input
\* enters on a link from the graph boundary, a declared output is produced by
\* an operation
DeclaredNamesAreCarried(ops, links, inputs, outputs) ==
    /\ \A v \in Range(inputs) :
          \E i \in DOMAIN links : links[i].var_name = v /\ links[i].source = GraphName
    /\ \A v \in Range(outputs) :
          \E i \in DOMAIN links : links[i].var_name = v /\ links[i].source \in OpNames(ops)

Init ==
    /\ \E idx \in SUBSET (DOMAIN OpUniverse) :
          /\ Cardinality(idx) <= MaxOps
          /\ onnx_ops = OpsAt(idx)
    /\ onnx_links \in SeqsUpTo(LinkChoices(onnx_ops), MaxLinks)
    /\ \A i \in DOMAIN onnx_links : onnx_links[i].source # onnx_links[i].sink
    /\ graph_inputs \in GraphInputs
    /\ graph_outputs \in GraphOutputs
    /\ DeclaredNamesAreCarried(onnx_ops, onnx_links, graph_inputs, graph_outputs)
    /\ composite_names = {}
    /\ composite_map = EmptyMap
    /\ composite_var_map = EmptyMap
    /\ composite_link_map = <<>>
    /\ primitive_map = EmptyMap
    /\ graphbook_composite_map = EmptyMap
    /\ returned = None
    /\ pc = "start"
    /\ li = 1
    /\ ri = 1
    /\ err = "none"

\* ------------------------------------------------------------------------
\* _compile_onnx_composite_map
\* ------------------------------------------------------------------------

\* every prefix of a composite path: join(split_path[:i+1]) for each i
PathPrefixes(composite_path) ==
    LET split_path == Split(composite_path)
    IN  {Join(Take(split_path, i)) : i \in 1..Len(split_path)}

\* composite_map[key].append(op) for each operation in turn
RECURSIVE GroupOps(_, _)
GroupOps(ops, m) ==
    IF Len(ops) = 0 THEN m
    ELSE LET op == Head(ops)
             key == IF op.composite_path # <<>> THEN op.composite_path ELSE GraphName
             m1 == Touch(m, key, <<>>)
         IN  GroupOps(Tail(ops), Put(m1, key, Append(m1[key], op)))

CompileOnnxCompositeMap ==
    /\ pc = "start"
    /\ composite_names' =
          {<<>>} \cup UNION {PathPrefixes(onnx_ops[i].composite_path) :
                                i \in {j \in DOMAIN onnx_ops : onnx_ops[j].composite_path # <<>>}}
    /\ composite_map' = GroupOps(onnx_ops, EmptyMap)
    /\ pc' = "link_map"
    /\ UNCHANGED <<graph, composite_var_map, composite_link_map, primitive_map,
                   graphbook_composite_map, returned, li, ri, err>>

\* ------------------------------------------------------------------------
\* _compile_onnx_composite_link_map
\* ------------------------------------------------------------------------

\* composite_link_map[key].append(link), keeping the order in which keys appear
LinkMapAppend(link_map, key, link) ==
    IF \E i \in DOMAIN link_map : link_map[i].key = key
    THEN [i \in DOMAIN link_map |->
            IF link_map[i].key = key
            THEN [key |-> key, links |-> Append(link_map[i].links, link)]
            ELSE link_map[i]]
    ELSE Append(link_map, [key |-> key, links |-> <<link>>])

StepResult(var_map, link_map, e) == [var_map |-> var_map, link_map |-> link_map, err |-> e]

\* the body of the loop over onnx_graph.onnx_links, for one link
LinkStep(link, ops_by_name, outputs, var_map, link_map) ==
    LET known(n) == n \in DOMAIN ops_by_name
        path(n) == ops_by_name[n].composite_path
    IN
    IF link.sink = GraphName
    THEN LET lm == LinkMapAppend(link_map, GraphName, link)
         IN  IF ~known(link.source)
             THEN StepResult(var_map, lm, "KeyError")
             ELSE StepResult(
                    calculate_composite_input_outputs(link.var_name, path(link.source), <<>>, var_map),
                    lm, "none")
    ELSE IF known(link.source) /\ link.var_name \in Range(outputs)
    THEN StepResult(var_map, link_map, "none")
    ELSE IF known(link.sink)
    THEN IF path(link.sink) # <<>>
         THEN LET lm == LinkMapAppend(link_map, path(link.sink), link)
              IN  IF link.source = GraphName
                  THEN StepResult(
                         calculate_composite_input_outputs(link.var_name, <<>>, path(link.sink), var_map),
                         lm, "none")
                  ELSE IF ~known(link.source)
                  THEN StepResult(var_map, lm, "KeyError")
                  ELSE IF path(link.source) = <<>> \/ path(link.sink) # path(link.source)
                  THEN StepResult(
                         calculate_composite_input_outputs(
                             link.var_name, path(link.source), path(link.sink), var_map),
                         lm, "none")
                  ELSE StepResult(var_map, lm, "none")
         ELSE IF link.source = GraphName
         THEN StepResult(var_map, LinkMapAppend(link_map, GraphName, link), "none")
         ELSE IF ~known(link.source)
         THEN StepResult(var_map, link_map, "KeyError")
         ELSE IF path(link.source) # <<>>
         THEN StepResult(
                calculate_composite_input_outputs(
                    link.var_name, path(link.source), path(link.sink), var_map),
                LinkMapAppend(link_map, GraphName, link), "none")
         ELSE StepResult(var_map, LinkMapAppend(link_map, GraphName, link), "none")
    ELSE StepResult(var_map, link_map, "ValueError")

CompileOnnxCompositeLinkMapStep ==
    /\ pc = "link_map"
    /\ li <= Len(onnx_links)
    /\ LET r == LinkStep(onnx_links[li], name_to_op, graph_outputs,
                         composite_var_map, composite_link_map)
       IN  /\ composite_var_map' = r.var_map
           /\ composite_link_map' = r.link_map
           /\ err' = r.err
           /\ pc' = IF r.err = "none" THEN "link_map" ELSE "error"
    /\ li' = li + 1
    /\ UNCHANGED <<graph, composite_names, composite_map, primitive_map,
                   graphbook_composite_map, returned, ri>>

CompileOnnxCompositeLinkMapReturn ==
    /\ pc = "link_map"
    /\ li > Len(onnx_links)
    /\ pc' = "assemble"
    /\ UNCHANGED <<graph, composite_names, composite_map, composite_var_map,
                   composite_link_map, primitive_map, graphbook_composite_map,
                   returned, li, ri, err>>

\* ------------------------------------------------------------------------
\* _compile_graphbook_operations_from_composite_map
\* ------------------------------------------------------------------------

\* an entry of a composite's operations list
Primitive(name) == [kind |-> "primitive", name |-> name]
SubComposite(name) == [kind |-> "composite", name |-> name]

\* graphbook.Operation(type=COMPOSITE_OPERATION, ..., links=[])
CompositeOperation(name, inputs, outputs, operations) ==
    [name |-> name, inputs |-> inputs, outputs |-> outputs,
     operations |-> operations, links |-> <<>>]

NonRootNames(names) == names \ {<<>>}

\* composite_var_map[name][INPUT] = [] and [OUTPUT] = [] where they are missing
WithDefaultLists(var_map, names) ==
    [k \in DOMAIN var_map \cup NonRootNames(names) |->
        IF k \in NonRootNames(names)
        THEN Touch(Touch(IF k \in DOMAIN var_map THEN var_map[k] ELSE EmptyMap,
                         INPUT, <<>>), OUTPUT, <<>>)
        ELSE var_map[k]]

\* the operations composite_map holds for a composite name
OwnedOps(cmap, name) == IF name \in DOMAIN cmap THEN cmap[name] ELSE <<>>

CompileGraphbookOperationsFromCompositeMap ==
    /\ pc = "assemble"
    /\ LET cmap == Touch(composite_map, GraphName, <<>>)
           cvar == WithDefaultLists(composite_var_map, composite_names)
           prims(name) == [i \in DOMAIN OwnedOps(cmap, name) |->
                              Primitive(OwnedOps(cmap, name)[i].name)]
       IN  /\ composite_map' = cmap
           /\ composite_var_map' = cvar
           /\ primitive_map' =
                 [n \in UNION {{cmap[k][i].name : i \in DOMAIN cmap[k]} :
                                  k \in DOMAIN cmap \cap ({GraphName} \cup composite_names)}
                     |-> Primitive(n)]
           /\ graphbook_composite_map' =
                 [name \in {GraphName} \cup NonRootNames(composite_names) |->
                     IF name = GraphName
                     THEN CompositeOperation(name, graph_inputs, graph_outputs, prims(name))
                     ELSE CompositeOperation(name, cvar[name][INPUT], cvar[name][OUTPUT],
                                             prims(name))]
    /\ pc' = "wire"
    /\ UNCHANGED <<graph, composite_names, composite_link_map, returned, li, ri, err>>

\* ------------------------------------------------------------------------
\* _compile_links_between_composite
\* ------------------------------------------------------------------------
LinkEndpoint(operation, data) == [operation |-> operation, data |-> data]

Link(source_op, sink_op, data) ==
    [source |-> LinkEndpoint(source_op, data), sink |-> LinkEndpoint(sink_op, data)]

\* for a in sub_vars: for b in parent_vars: if a == b: one link
RECURSIVE MatchLinks(_, _, _, _)
MatchLinks(sub_vars, parent_vars, source_op, sink_op) ==
    IF Len(sub_vars) = 0 THEN <<>>
    ELSE LET hits == SelectSeq(parent_vars, LAMBDA b : b = Head(sub_vars))
         IN  [j \in 1..Len(hits) |-> Link(source_op, sink_op, Head(sub_vars))]
             \o MatchLinks(Tail(sub_vars), parent_vars, source_op, sink_op)

\* the names the loop does not skip
AttachedNames(names) == {n \in names : n # GraphName /\ Len(Split(n)) > 1}

ParentName(name) ==
    LET split_name == Split(name)
        parent_name == Join(Take(split_name, Len(split_name) - 1))
    IN  IF Len(parent_name) = 0 THEN GraphName ELSE parent_name

\* the body of the loop for one name that is not skipped
AttachOne(gmap, name) ==
    LET sub_op == gmap[name]
        parent_composite == gmap[ParentName(name)]
    IN  [gmap EXCEPT ![ParentName(name)] =
            [parent_composite EXCEPT
                !.operations = Append(@, SubComposite(name)),
                !.links = @ \o MatchLinks(sub_op.inputs, parent_composite.inputs, THIS, name)
                            \o MatchLinks(sub_op.outputs, parent_composite.outputs, name, THIS)]]

RECURSIVE AttachAll(_, _)
AttachAll(gmap, order) ==
    IF Len(order) = 0 THEN gmap
    ELSE AttachAll(AttachOne(gmap, Head(order)), Tail(order))

\* the orders in which iterating over a set can visit it
Orders(S) == {f \in [1..Cardinality(S) -> S] : \A i, j \in DOMAIN f : f[i] = f[j] => i = j}

CompileLinksBetweenComposite ==
    /\ pc = "wire"
    /\ \E order \in Orders(AttachedNames(composite_names)) :
          graphbook_composite_map' = AttachAll(graphbook_composite_map, order)
    /\ pc' = "route"
    /\ UNCHANGED <<graph, composite_names, composite_map, composite_var_map,
                   composite_link_map, primitive_map, returned, li, ri, err>>

\* ------------------------------------------------------------------------
\* _compile_links_between_composite_and_primitive
\* ------------------------------------------------------------------------

\* the (composite_name, link) pairs in the order the two loops visit them
RECURSIVE RouteItems(_)
RouteItems(link_map) ==
    IF Len(link_map) = 0 THEN <<>>
    ELSE [j \in DOMAIN Head(link_map).links |->
             [composite_name |-> Head(link_map).key, link |-> Head(link_map).links[j]]]
         \o RouteItems(Tail(link_map))

VarsOf(gmap, name) == [inputs |-> Range(gmap[name].inputs), outputs |-> Range(gmap[name].outputs)]

AppendLink(gmap, name, link) == [gmap EXCEPT ![name].links = Append(@, link)]

RouteResult(gmap, e) == [gmap |-> gmap, err |-> e]

\* the body of the inner loop for one link of one composite
RouteStep(gmap, pmap, composite_name, link) ==
    IF link.source = GraphName
    THEN RouteResult(gmap, "none")
    ELSE IF link.source \notin DOMAIN pmap
    THEN RouteResult(gmap, "KeyError")
    ELSE IF pmap[link.source] \in Range(gmap[composite_name].operations)
    THEN RouteResult(
            AppendLink(gmap, composite_name, Link(link.source, link.sink, link.var_name)),
            "none")
    ELSE IF composite_name = GraphName
    THEN LET split_name == Split(link.source)
             sink_name == Join(Take(split_name, Len(split_name) - 1))
         IN  IF sink_name \notin DOMAIN gmap
             THEN RouteResult(gmap, "KeyError")
             ELSE IF link.var_name \notin VarsOf(gmap, sink_name).outputs
             THEN RouteResult(gmap, "ValueError")
             ELSE RouteResult(
                    AppendLink(gmap, sink_name, Link(link.source, THIS, link.var_name)),
                    "none")
    ELSE IF ~StartsWith(link.source, composite_name)
    THEN IF link.var_name \notin VarsOf(gmap, composite_name).inputs
         THEN RouteResult(gmap, "ValueError")
         ELSE RouteResult(
                AppendLink(gmap, composite_name, Link(THIS, link.sink, link.var_name)),
                "none")
    ELSE LET split_name == Split(link.source)
             split_composite_name == Split(composite_name)
             next_composite_name == Join(Take(split_name, Len(split_composite_name) + 1))
         IN  IF Len(split_name) <= Len(split_composite_name)
             THEN RouteResult(gmap, "ValueError")
             ELSE IF next_composite_name \notin DOMAIN gmap
             THEN RouteResult(gmap, "KeyError")
             ELSE IF link.var_name \notin VarsOf(gmap, next_composite_name).outputs
             THEN RouteResult(gmap, "ValueError")
             ELSE RouteResult(
                    AppendLink(gmap, composite_name,
                               Link(next_composite_name, link.sink, link.var_name)),
                    "none")

CompileLinksBetweenCompositeAndPrimitiveStep ==
    /\ pc = "route"
    /\ ri <= Len(RouteItems(composite_link_map))
    /\ LET item == RouteItems(composite_link_map)[ri]
           r == RouteStep(graphbook_composite_map, primitive_map,
                          item.composite_name, item.link)
       IN  /\ graphbook_composite_map' = r.gmap
           /\ err' = r.err
           /\ pc' = IF r.err = "none" THEN "route" ELSE "error"
    /\ ri' = ri + 1
    /\ UNCHANGED <<graph, composite_names, composite_map, composite_var_map,
                   composite_link_map, primitive_map, returned, li>>

\* return graphbook_composite_map[onnx_graph.name]
OnnxGraphToGraphbookReturn ==
    /\ pc = "route"
    /\ ri > Len(RouteItems(composite_link_map))
    /\ returned' = graphbook_composite_map[GraphName]
    /\ pc' = "done"
    /\ UNCHANGED <<graph, composite_names, composite_map, composite_var_map,
                   composite_link_map, primitive_map, graphbook_composite_map,
                   li, ri, err>>

Next ==
    \/ CompileOnnxCompositeMap
    \/ CompileOnnxCompositeLinkMapStep
    \/ CompileOnnxCompositeLinkMapReturn
    \/ CompileGraphbookOperationsFromCompositeMap
    \/ CompileLinksBetweenComposite
    \/ CompileLinksBetweenCompositeAndPrimitiveStep
    \/ OnnxGraphToGraphbookReturn

Spec == Init /\ [][Next]_vars

\* The conversion up to the return of _compile_onnx_composite_link_map, which
\* never reads onnx_graph.inputs.
PropagatorInit == Init /\ graph_inputs = <<>>

PropagatorNext ==
    \/ CompileOnnxCompositeMap
    \/ CompileOnnxCompositeLinkMapStep
    \/ CompileOnnxCompositeLinkMapReturn

PropagatorSpec == PropagatorInit /\ [][PropagatorNext]_vars

\* ------------------------------------------------------------------------
\* Vocabulary of the properties: scope paths as sequences of segments
\* ------------------------------------------------------------------------
Segments(path) == IF path = <<>> THEN <<>> ELSE Split(path)

Depth(path) == Len(Segments(path))

PrefixAt(path, d) == Join(Take(Segments(path), d))

IsSegmentPrefix(short, long) ==
    /\ Depth(short) <= Depth(long)
    /\ Take(Segments(long), Depth(short)) = Segments(short)

IsStrictSegmentPrefix(short, long) == IsSegmentPrefix(short, long) /\ short # long

IsOpName(n) == n \in OpNames(onnx_ops)

ScopeOf(n) == name_to_op[n].composite_path

\* the required-input or required-output list of a scope, empty when unset
ListOf(var_map, key, kind) ==
    IF key \in DOMAIN var_map /\ kind \in DOMAIN var_map[key]
    THEN var_map[key][kind]
    ELSE <<>>

\* new is old with var_name added (once, at the end) to the lists named by
\* targets, a set of <<scope, kind>> pairs, and with nothing else changed
AddsExactly(old, new, targets, var_name) ==
    \A key \in DOMAIN old \cup DOMAIN new \cup {t[1] : t \in targets} :
        \A kind \in {INPUT, OUTPUT} :
            ListOf(new, key, kind) =
                IF <<key, kind>> \in targets /\ var_name \notin Range(ListOf(old, key, kind))
                THEN Append(ListOf(old, key, kind), var_name)
                ELSE ListOf(old, key, kind)

\* the link-map loop is about to handle onnx_links[li]
AtLink == pc = "link_map" /\ li \in DOMAIN onnx_links

\* the link-map loop has just handled onnx_links[li - 1] without raising
PastLink == pc = "link_map" /\ li > 1 /\ (li - 1) \in DOMAIN onnx_links

NodeNames == DOMAIN graphbook_composite_map

\* the scope path of a composite node: root's name is the graph's name
ScopePathOf(node_name) == IF node_name = GraphName THEN <<>> ELSE node_name

\* the names of the direct children of a composite node
DirectChildren(node_name) ==
    {onnx_ops[i].name : i \in {j \in DOMAIN onnx_ops :
                                  onnx_ops[j].composite_path = ScopePathOf(node_name)}}
    \cup {s \in NonRootNames(composite_names) :
             /\ Depth(s) = Depth(ScopePathOf(node_name)) + 1
             /\ IsSegmentPrefix(ScopePathOf(node_name), s)}

LinksOf(node_name) == Range(graphbook_composite_map[node_name].links)

IsDangling(n) == n # GraphName /\ ~IsOpName(n)

HasDanglingLink ==
    \E i \in DOMAIN onnx_links :
        IsDangling(onnx_links[i].source) \/ IsDangling(onnx_links[i].sink)

\* ------------------------------------------------------------------------
\* Properties
\* ------------------------------------------------------------------------

\* C1 (no skipped levels): when the conversion has completed, both endpoints
\* of every link of every composite node are "this" or a direct child of
\* that node.
C1_NoSkippedLevels ==
    pc = "done" =>
        \A n \in NodeNames : \A l \in LinksOf(n) :
            /\ l.source.operation \in {THIS} \cup DirectChildren(n)
            /\ l.sink.operation \in {THIS} \cup DirectChildren(n)

\* C2 (interface completeness): when the conversion has completed, every
\* declared input of every composite node is carried by a link of that node
\* whose source is "this", and every declared output by a link whose sink is
\* "this". Stated for the graphs whose links all resolve, so that no link
\* has been dropped on the way.
C2_InterfaceCompleteness ==
    (pc = "done" /\ ~HasDanglingLink) =>
        \A n \in NodeNames :
            /\ \A v \in Range(graphbook_composite_map[n].inputs) :
                  \E l \in LinksOf(n) : l.source = LinkEndpoint(THIS, v)
            /\ \A v \in Range(graphbook_composite_map[n].outputs) :
                  \E l \in LinksOf(n) : l.sink = LinkEndpoint(THIS, v)

\* C3 (fatal on dangling link): a graph with a link whose producer or
\* consumer is neither the graph's name nor an operation never gets past
\* the link-map loop: no composite node is built and nothing is returned.
C3_FatalOnDanglingLink ==
    HasDanglingLink =>
        /\ pc \in {"start", "link_map", "error"}
        /\ graphbook_composite_map = EmptyMap
        /\ returned = None

\* a graph of two root-level operations and one link between them
IsTrivialGraph ==
    /\ Len(onnx_ops) = 2
    /\ \A i \in DOMAIN onnx_ops : onnx_ops[i].composite_path = <<>>
    /\ Len(onnx_links) = 1
    /\ IsOpName(onnx_links[1].source)
    /\ IsOpName(onnx_links[1].sink)

\* C4 (round trip on a trivial graph): the conversion of a graph of two
\* root-level operations P, C and one link from P to C does not fail, and
\* returns a root with the single link P to C, the children P and C and the
\* graph's declared inputs and outputs.
C4_TrivialRoundTrip ==
    IsTrivialGraph =>
        /\ pc # "error"
        /\ pc = "done" =>
              /\ returned.links =
                    << Link(onnx_links[1].source, onnx_links[1].sink, onnx_links[1].var_name) >>
              /\ Len(returned.operations) = 2
              /\ Range(returned.operations) = {Primitive(onnx_ops[1].name), Primitive(onnx_ops[2].name)}
              /\ returned.inputs = graph_inputs
              /\ returned.outputs = graph_outputs

\* the scopes on the path to a scope, from depth lo to depth hi, paired with kind
Targets(path, lo, hi, kind) == {<<PrefixAt(path, d), kind>> : d \in lo..hi}

\* the number of leading segments two scope paths share
CommonDepth(path1, path2) ==
    CHOOSE d \in 0..Depth(path1) :
        /\ d <= Depth(path2)
        /\ Take(Segments(path1), d) = Take(Segments(path2), d)
        /\ \A e \in (d + 1)..Depth(path1) :
              e > Depth(path2) \/ Take(Segments(path1), e) # Take(Segments(path2), e)

IsDivergent(path1, path2) ==
    /\ path1 # <<>>
    /\ path2 # <<>>
    /\ ~IsSegmentPrefix(path1, path2)
    /\ ~IsSegmentPrefix(path2, path1)

\* C5 (cross-stream divergence): for producer and consumer scope paths P and
\* C of which neither is a segment prefix of the other, the call
\* _calculate_composite_input_outputs(v, P, C, map) adds v to the output list
\* of every scope on the path to P below the common prefix, to the input list
\* of every scope on the path to C below the common prefix, and changes
\* nothing else.
C5_CrossStreamDivergence ==
    \A P \in NonRootNames(composite_names) : \A C \in NonRootNames(composite_names) :
        \A v \in VarNames :
            IsDivergent(P, C) =>
                AddsExactly(composite_var_map,
                            calculate_composite_input_outputs(v, P, C, composite_var_map),
                            Targets(P, CommonDepth(P, C) + 1, Depth(P), OUTPUT)
                                \cup Targets(C, CommonDepth(P, C) + 1, Depth(C), INPUT),
                            v)

\* C6 (downstream skip): handling a link from the graph boundary to an
\* operation in a non-root scope C adds the variable to the input list of the
\* prefixes of C of depth 2 to Depth(C), and changes no other list.
C6_DownstreamSkip ==
    [][ (/\ AtLink
         /\ onnx_links[li].source = GraphName
         /\ IsOpName(onnx_links[li].sink)
         /\ ScopeOf(onnx_links[li].sink) # <<>>)
        => /\ pc' = "link_map"
           /\ AddsExactly(composite_var_map, composite_var_map',
                          Targets(ScopeOf(onnx_links[li].sink), 2,
                                  Depth(ScopeOf(onnx_links[li].sink)), INPUT),
                          onnx_links[li].var_name) ]_vars

\* a boundary link into the depth-3 scope has been handled: the variable is an
\* input of the depth-2 and depth-3 scopes and not of the depth-1 scope
C6_Witness ==
    /\ PastLink
    /\ onnx_links[li - 1].source = GraphName
    /\ IsOpName(onnx_links[li - 1].sink)
    /\ Depth(ScopeOf(onnx_links[li - 1].sink)) = 3
    /\ LET C == ScopeOf(onnx_links[li - 1].sink)
           v == onnx_links[li - 1].var_name
       IN  /\ v \in Range(ListOf(composite_var_map, PrefixAt(C, 2), INPUT))
           /\ v \in Range(ListOf(composite_var_map, C, INPUT))
           /\ v \notin Range(ListOf(composite_var_map, PrefixAt(C, 1), INPUT))

\* C7 (producer deeper than consumer): handling a link from an operation in
\* scope P to an operation in a non-root scope C that is a strict segment
\* prefix of P adds the variable to the output list of the scopes below C on
\* the path to P, P included, and changes no other list.
C7_ProducerDeeper ==
    [][ (/\ AtLink
         /\ IsOpName(onnx_links[li].source)
         /\ IsOpName(onnx_links[li].sink)
         /\ ScopeOf(onnx_links[li].sink) # <<>>
         /\ IsStrictSegmentPrefix(ScopeOf(onnx_links[li].sink), ScopeOf(onnx_links[li].source)))
        => /\ pc' = "link_map"
           /\ AddsExactly(composite_var_map, composite_var_map',
                          Targets(ScopeOf(onnx_links[li].source),
                                  Depth(ScopeOf(onnx_links[li].sink)) + 1,
                                  Depth(ScopeOf(onnx_links[li].source)), OUTPUT),
                          onnx_links[li].var_name) ]_vars

\* C8 (producer shallower than consumer): handling a link from an operation
\* owned by scope P (root included) to an operation in a scope C of which P
\* is a strict segment prefix adds the variable to the input list of the
\* scopes below P on the path to C, C included, and changes no other list.
\* Stated for the links whose variable is not a declared output of the graph,
\* which the loop does not skip at lines 282-284.
C8_ProducerShallower ==
    [][ (/\ AtLink
         /\ onnx_links[li].var_name \notin Range(graph_outputs)
         /\ IsOpName(onnx_links[li].source)
         /\ IsOpName(onnx_links[li].sink)
         /\ IsStrictSegmentPrefix(ScopeOf(onnx_links[li].source), ScopeOf(onnx_links[li].sink)))
        => /\ pc' = "link_map"
           /\ AddsExactly(composite_var_map, composite_var_map',
                          Targets(ScopeOf(onnx_links[li].sink),
                                  Depth(ScopeOf(onnx_links[li].source)) + 1,
                                  Depth(ScopeOf(onnx_links[li].sink)), INPUT),
                          onnx_links[li].var_name) ]_vars

\* C9 (upstream to boundary): handling a link from an operation in a non-root
\* scope P to the graph boundary adds the variable to the output list of the
\* prefixes of P of depth 1 to Depth(P), and changes no other list.
C9_UpstreamToBoundary ==
    [][ (/\ AtLink
         /\ onnx_links[li].sink = GraphName
         /\ IsOpName(onnx_links[li].source)
         /\ ScopeOf(onnx_links[li].source) # <<>>)
        => /\ pc' = "link_map"
           /\ AddsExactly(composite_var_map, composite_var_map',
                          Targets(ScopeOf(onnx_links[li].source), 1,
                                  Depth(ScopeOf(onnx_links[li].source)), OUTPUT),
                          onnx_links[li].var_name) ]_vars

\* a link from the depth-3 scope to the boundary has been handled: the variable
\* is an output of the scopes of depth 1, 2 and 3 and an input of none
C9_Witness ==
    /\ PastLink
    /\ onnx_links[li - 1].sink = GraphName
    /\ IsOpName(onnx_links[li - 1].source)
    /\ Depth(ScopeOf(onnx_links[li - 1].source)) = 3
    /\ LET P == ScopeOf(onnx_links[li - 1].source)
           v == onnx_links[li - 1].var_name
       IN  /\ \A d \in 1..3 : v \in Range(ListOf(composite_var_map, PrefixAt(P, d), OUTPUT))
           /\ \A d \in 1..3 : v \notin Range(ListOf(composite_var_map, PrefixAt(P, d), INPUT))

\* running _compile_onnx_composite_link_map over the links once more, on the
\* var map it is given; None when a link raises
RECURSIVE PropagateAgain(_, _, _)
PropagateAgain(links, var_map, link_map) ==
    IF Len(links) = 0 THEN var_map
    ELSE LET r == LinkStep(Head(links), name_to_op, graph_outputs, var_map, link_map)
         IN  IF r.err # "none" THEN None
             ELSE PropagateAgain(Tail(links), r.var_map, r.link_map)

NoDuplicates(var_map) ==
    \A key \in DOMAIN var_map : \A kind \in DOMAIN var_map[key] :
        \A i, j \in DOMAIN var_map[key][kind] :
            var_map[key][kind][i] = var_map[key][kind][j] => i = j

\* every list of old is an initial part of the same list of new
KeepsOrder(old, new) ==
    \A key \in DOMAIN old : \A kind \in DOMAIN old[key] :
        /\ key \in DOMAIN new
        /\ kind \in DOMAIN new[key]
        /\ Len(old[key][kind]) <= Len(new[key][kind])
        /\ SubSeq(new[key][kind], 1, Len(old[key][kind])) = old[key][kind]

\* C10 (idempotent aggregation): every step leaves the lists without a
\* repeated name and only ever extends a list at its end; when the link-map
\* loop has finished, running it again on the map it produced changes no list.
C10_IdempotentAggregation ==
    [][ /\ NoDuplicates(composite_var_map')
        /\ KeepsOrder(composite_var_map, composite_var_map')
        /\ (pc = "link_map" /\ pc' = "assemble")
              => PropagateAgain(onnx_links, composite_var_map', <<>>) = composite_var_map' ]_vars

\* the loop has finished over two links and a list holds their two variables,
\* the first link's first
C10_Witness ==
    /\ pc = "assemble"
    /\ Len(onnx_links) = 2
    /\ onnx_links[1].var_name # onnx_links[2].var_name
    /\ \E key \in DOMAIN composite_var_map : \E kind \in DOMAIN composite_var_map[key] :
          composite_var_map[key][kind] = <<onnx_links[1].var_name, onnx_links[2].var_name>>

\* two ScopeInterface mappings have entries for the same scope paths and the
\* same required-input and required-output list in every entry
SameInterface(old, new) ==
    /\ DOMAIN old = DOMAIN new
    /\ \A key \in DOMAIN old : \A kind \in {INPUT, OUTPUT} :
          ListOf(old, key, kind) = ListOf(new, key, kind)

\* C11 (phase separation): once _compile_onnx_composite_link_map has
\* returned, no step of the assembly, the boundary wiring or the routing
\* changes composite_var_map: it keeps the same scope paths and the same
\* required-input and required-output lists.
C11_PhaseSeparation ==
    [][ (pc \in {"assemble", "wire", "route"})
            => SameInterface(composite_var_map, composite_var_map') ]_vars

\* the composite node of a scope path
NodeOf(path) == IF path = <<>> THEN GraphName ELSE path

\* what stands for an operation inside the scope of depth d on the path to
\* its owner: the child composite of depth d + 1, or the operation itself in
\* the scope that owns it
EndAt(path, d, op_name) == IF Depth(path) > d THEN PrefixAt(path, d + 1) ELSE op_name

\* the chain of links that carries a flat link from its producer to its
\* consumer, as <<node, link>> pairs: up to "this" in every scope from the
\* producer's owner to below the deepest common scope, across in the deepest
\* common scope, down from "this" in every scope below it to the consumer's
\* owner
ExpectedChain(link) ==
    LET P == ScopeOf(link.source)
        C == ScopeOf(link.sink)
        d == CommonDepth(P, C)
    IN  {<<NodeOf(PrefixAt(P, k)), Link(EndAt(P, k, link.source), THIS, link.var_name)>> :
            k \in (d + 1)..Depth(P)}
        \cup {<<NodeOf(PrefixAt(P, d)),
                Link(EndAt(P, d, link.source), EndAt(C, d, link.sink), link.var_name)>>}
        \cup {<<NodeOf(PrefixAt(C, k)), Link(THIS, EndAt(C, k, link.sink), link.var_name)>> :
                k \in (d + 1)..Depth(C)}

IsResolved(link) == IsOpName(link.source) /\ IsOpName(link.sink)

ChainIsRouted(link) ==
    \A e \in ExpectedChain(link) : e[1] \in NodeNames /\ e[2] \in LinksOf(e[1])

\* C12 (end-to-end routing): when the conversion has completed, every flat
\* link between two operations, whatever their scopes and whether or not its
\* variable is a declared output, has its whole chain in the composite nodes:
\* a link in every scope between the producer's and the consumer's owner.
C12_EndToEndRouting ==
    pc = "done" =>
        \A i \in DOMAIN onnx_links :
            IsResolved(onnx_links[i]) => ChainIsRouted(onnx_links[i])

\* C13 (propagator and router agree): on a graph whose link endpoints are all
\* the graph's name or an operation, no step of the router raises: every
\* check of a variable against a composite's inputs or outputs passes and
\* every composite looked up exists.
C13_PropagatorRouterAgree ==
    [][ (pc = "route" /\ ~HasDanglingLink) => (pc' # "error" /\ err' = "none") ]_vars

\* the path of a non-root scope with its last segment removed
ParentPath(path) == PrefixAt(path, Depth(path) - 1)

\* how many times a composite node's children list holds the scope S
TimesChildOf(node_name, S) ==
    LET operations == graphbook_composite_map[node_name].operations
    IN  Cardinality({i \in DOMAIN operations : operations[i] = SubComposite(S)})

\* _compile_links_between_composite has returned and nothing has raised
Wired == pc \in {"route", "done"}

\* C14 (composite attachment): once the composites are attached, every
\* discovered non-root scope, of depth 1 or more, is exactly once in the
\* children list of its parent's node (root's for depth 1) and in no other
\* node's children list.
C14_CompositeAttachment ==
    Wired =>
        \A S \in NonRootNames(composite_names) : \A n \in NodeNames :
            TimesChildOf(n, S) = IF n = NodeOf(ParentPath(S)) THEN 1 ELSE 0

\* the boundary links of the scopes S among the children of the node Q: from
\* "this" to S for a declared input of both, from S to "this" for a declared
\* output of both
BoundaryLinks(Q, children) ==
    UNION {{Link(THIS, S, v) : v \in VarsOf(graphbook_composite_map, S).inputs
                                      \cap VarsOf(graphbook_composite_map, Q).inputs}
           \cup {Link(S, THIS, v) : v \in VarsOf(graphbook_composite_map, S).outputs
                                           \cap VarsOf(graphbook_composite_map, Q).outputs} :
           S \in children}

\* the non-root scopes whose parent is the scope of the node Q
ChildScopes(Q) == {S \in NonRootNames(composite_names) : NodeOf(ParentPath(S)) = Q}

\* the links a step has added at the end of the links of the node Q
AddedLinks(Q) ==
    SubSeq(graphbook_composite_map'[Q].links,
           Len(graphbook_composite_map[Q].links) + 1,
           Len(graphbook_composite_map'[Q].links))

\* C15 (boundary link wirer): _compile_links_between_composite adds to the
\* links of every node Q exactly one link per child scope S (depth-1 scopes
\* under root included) and name that both declare as input, from "this" to
\* S, one per name that both declare as output, from S to "this", and no
\* other link.
C15_BoundaryLinkWirer ==
    [][ (pc = "wire") =>
            \A Q \in NodeNames :
                /\ Range(AddedLinks(Q)) = BoundaryLinks(Q, ChildScopes(Q))
                /\ Len(AddedLinks(Q)) = Cardinality(BoundaryLinks(Q, ChildScopes(Q))) ]_vars

\* the router is about to resolve, at the root node, a flat link whose
\* producer is an operation that is not a direct child of root
AtRootRouteOfDeepProducer ==
    /\ pc = "route"
    /\ ri \in DOMAIN RouteItems(composite_link_map)
    /\ RouteItems(composite_link_map)[ri].composite_name = GraphName
    /\ IsOpName(RouteItems(composite_link_map)[ri].link.source)
    /\ ScopeOf(RouteItems(composite_link_map)[ri].link.source) # <<>>

\* C16 (router step at the root): resolving at the root a flat link whose
\* producer is not a direct child of root raises when the variable is not a
\* declared output of the depth-1 scope that contains the producer, and
\* otherwise adds to root's links the link from that depth-1 scope to "this"
\* and changes no other node.
C16_RouterStepAtRoot ==
    [][ AtRootRouteOfDeepProducer =>
            LET link == RouteItems(composite_link_map)[ri].link
                top == PrefixAt(ScopeOf(link.source), 1)
            IN  IF link.var_name \in VarsOf(graphbook_composite_map, top).outputs
                THEN /\ pc' = "route"
                     /\ graphbook_composite_map' =
                           AppendLink(graphbook_composite_map, GraphName,
                                      Link(top, THIS, link.var_name))
                ELSE /\ pc' = "error"
                     /\ graphbook_composite_map' = graphbook_composite_map ]_vars

====
